---------------------------- MODULE Spec2Model ----------------------------
(***************************************************************************)
(* State-machine model of the knowledge-graph retrieval engine:            *)
(*   KnowledgeGraphBuilder.build_graph      (knowledge_graph/graph_builder)*)
(*   ContextAwareRetriever.retrieve         (retrieval/context_retriever)  *)
(*   ContextAssembler.assemble_context      (retrieval/context_assembler)  *)
(*                                                                         *)
(* Python strings that the code formats or searches (node ids, raw ids)    *)
(* are sequences of one-character strings, so that f"chunk_{id}" and       *)
(* '"entity" in id' are computed.  Attribute dictionaries are functions    *)
(* from key names to values.  Embeddings are tuples of integers; the       *)
(* vectors used are unit axis vectors, for which cosine similarity is the  *)
(* dot product.  Scores are kept exact by scaling (see hybrid scoring).    *)
(***************************************************************************)
EXTENDS Integers, Sequences, FiniteSets, TLC

VARIABLES
    input,        \* arguments of build_graph: [chunks, entities, relationships]
    graph,        \* the nx.DiGraph shared by retriever and assembler
    buildStatus,  \* "none" before build_graph, then "ok" (returned) or "raised"
    hashOrder,    \* this process's iteration order of a set of node-id strings
    lastOp,       \* the operation that produced the current state
    lastRet,      \* the latest retrieve call: arguments, graph, outcome
    prevRet,      \* the retrieve call before lastRet, kept when it had the same arguments
    lastAsm,      \* the latest sequential assemble_context call and its outcome
    asm           \* the concurrent assemble_context calls, one record per thread

vars == <<input, graph, buildStatus, hashOrder, lastOp, lastRet, prevRet, lastAsm, asm>>

None == "None"

-----------------------------------------------------------------------------
(* Python strings and dictionaries *)

\* ord() of the characters that occur in the ids of the model
Ord(c) ==
    CASE c = "0" -> 48 [] c = "1" -> 49 [] c = "2" -> 50
      [] c = "_" -> 95
      [] c = "a" -> 97 [] c = "b" -> 98 [] c = "c" -> 99 [] c = "e" -> 101 [] c = "h" -> 104 [] c = "i" -> 105
      [] c = "k" -> 107 [] c = "l" -> 108 [] c = "n" -> 110 [] c = "t" -> 116 [] c = "u" -> 117
      [] c = "y" -> 121

\* str.__lt__: lexicographic comparison by code point
RECURSIVE StrLess(_, _)
StrLess(a, b) ==
    IF a = <<>> THEN b # <<>>
    ELSE IF b = <<>> THEN FALSE
    ELSE IF Head(a) = Head(b) THEN StrLess(Tail(a), Tail(b))
    ELSE Ord(Head(a)) < Ord(Head(b))

\* sub in s
Contains(sub, s) ==
    \E i \in 1..(Len(s) - Len(sub) + 1) : SubSeq(s, i, i + Len(sub) - 1) = sub

S_chunk == <<"c", "h", "u", "n", "k">>
S_entity == <<"e", "n", "t", "i", "t", "y">>

\* f"{prefix}_{raw}"
NodeName(prefix, raw) == prefix \o <<"_">> \o raw

EmptyDict == [x \in {} |-> None]

\* dict.update
Merge(d, e) ==
    [x \in (DOMAIN d) \cup (DOMAIN e) |-> IF x \in DOMAIN e THEN e[x] ELSE d[x]]

\* d.get(k, default)
Get(d, k, default) == IF k \in DOMAIN d THEN d[k] ELSE default

\* lst[:k], with Python's meaning of a negative k
Slice(lst, k) ==
    IF k >= 0 THEN SubSeq(lst, 1, IF k < Len(lst) THEN k ELSE Len(lst))
    ELSE SubSeq(lst, 1, IF Len(lst) + k > 0 THEN Len(lst) + k ELSE 0)

Range(s) == {s[i] : i \in 1..Len(s)}

-----------------------------------------------------------------------------
(* networkx.DiGraph: nodes in insertion order, one attribute dict per node, *)
(* one attribute dict per ordered pair of nodes                             *)

EmptyGraph == [order |-> <<>>, attrs |-> EmptyDict, edges |-> EmptyDict]

Nodes(g) == DOMAIN g.attrs

\* DiGraph.add_node(n, **a): a new node is appended, an existing node's dict is updated
AddNode(g, n, a) ==
    IF n \in Nodes(g)
    THEN [g EXCEPT !.attrs = [x \in Nodes(g) |-> IF x = n THEN Merge(g.attrs[n], a) ELSE g.attrs[x]]]
    ELSE [g EXCEPT !.order = Append(g.order, n),
                   !.attrs = [x \in Nodes(g) \cup {n} |-> IF x = n THEN a ELSE g.attrs[x]]]

\* a graph edge stored without creating its endpoints
AddEdgeNoNodes(g, u, v, a) ==
    [g EXCEPT !.edges = [e \in (DOMAIN g.edges) \cup {<<u, v>>} |->
                            IF e = <<u, v>> THEN Merge(Get(g.edges, e, EmptyDict), a)
                            ELSE g.edges[e]]]

\* DiGraph.add_edge(u, v, **a): missing endpoints are created with no
\* attributes; the dict of an existing edge u -> v is updated
AddEdge(g, u, v, a) ==
    LET g1 == AddNode(g, u, EmptyDict)
        g2 == AddNode(g1, v, EmptyDict)
    IN  [g2 EXCEPT !.edges = [e \in (DOMAIN g2.edges) \cup {<<u, v>>} |->
                                IF e = <<u, v>> THEN Merge(Get(g2.edges, e, EmptyDict), a)
                                ELSE g2.edges[e]]]

\* DiGraph.neighbors(n): the successors of n
Neighbors(g, n) == {e[2] : e \in {d \in DOMAIN g.edges : d[1] = n}}

-----------------------------------------------------------------------------
(* KnowledgeGraphBuilder *)

\* config["embedding"]["text_dimension"]: the model is configured with
\* two-component embeddings (the code's default is 768)
text_dimension == 2

\* graph_builder.py imports networkx, sentence_transformers and transformers
\* only: the name logging is not bound in that module, and a call of
\* logging.warning or logging.error raises NameError
LoggingImported == FALSE

\* numpy arrays: a one-dimensional array of shape (d,) and a two-dimensional
\* array of shape (1, d) holding the same components
Arr1(v) == [shape |-> <<Len(v)>>, data |-> v]
Row(v) == [shape |-> <<1, Len(v)>>, data |-> v]

\* len(array): the length of the first axis
PyLen(a) == a.shape[1]

\* text_embedder.encode(content), the external text encoder: a fixed function
\* of the text, fallible per call, returning a one-dimensional array for a
\* string.  "long" yields a vector of the wrong length, "bad" makes the
\* encoder raise.
Encode(text) ==
    CASE text = "alpha" -> [ok |-> TRUE, v |-> Arr1(<<1, 0>>)]
      [] text = "beta"  -> [ok |-> TRUE, v |-> Arr1(<<0, 1>>)]
      [] text = "gamma" -> [ok |-> TRUE, v |-> Arr1(<<-1, 0>>)]
      [] text = "long"  -> [ok |-> TRUE, v |-> Arr1(<<1, 0, 0>>)]
      [] OTHER          -> [ok |-> FALSE, v |-> Arr1(<<>>)]

\* _add_chunk_nodes
RECURSIVE add_chunk_nodes(_, _)
add_chunk_nodes(g, chunks) ==
    IF chunks = <<>> THEN g
    ELSE LET chunk == Head(chunks)
         IN  add_chunk_nodes(
                 AddNode(g, NodeName(S_chunk, chunk["id"]),
                         [type |-> "chunk", content |-> chunk["text"],
                          metadata |-> chunk["metadata"]]),
                 Tail(chunks))

\* _add_entity_nodes
RECURSIVE add_entity_nodes(_, _)
add_entity_nodes(g, entities) ==
    IF entities = <<>> THEN g
    ELSE LET entity == Head(entities)
             g1 == AddNode(g, NodeName(S_entity, entity["id"]),
                           [type |-> "entity", content |-> entity["text"],
                            entity_type |-> entity["type"],
                            metadata |-> Get(entity, "metadata", EmptyDict)])
             g2 == IF "chunk_id" \in DOMAIN entity
                   THEN AddEdge(g1, NodeName(S_chunk, entity["chunk_id"]),
                                NodeName(S_entity, entity["id"]),
                                [type |-> "contains"])
                   ELSE g1
         IN  add_entity_nodes(g2, Tail(entities))

\* the node ids _add_relationships derives for one relationship record
RelSource(rel) ==
    NodeName(IF Contains(S_entity, rel["source"]) THEN S_entity ELSE S_chunk, rel["source"])
RelTarget(rel) ==
    NodeName(IF Contains(S_entity, rel["target"]) THEN S_entity ELSE S_chunk, rel["target"])

\* _add_relationships; confidences are in tenths, the default 1.0 is 10
RECURSIVE add_relationships(_, _)
add_relationships(g, relationships) ==
    IF relationships = <<>> THEN g
    ELSE LET rel == Head(relationships)
         IN  add_relationships(
                 AddEdge(g, RelSource(rel), RelTarget(rel),
                         [type |-> rel["type"],
                          confidence |-> Get(rel, "confidence", 10)]),
                 Tail(relationships))

\* one iteration of the loop of _generate_embeddings on node n:
\* "skip" (continue), "set" (embedding stored) or "raise" (the exception
\* leaves build_graph)
\* build_graph creates nodes of type chunk and entity only (and nodes
\* without attributes), so the table and figure branches are never taken
EmbedStep(g, n) ==
    LET data == g.attrs[n]
        content == Get(data, "content", "")
        enc == Encode(content)
        \* the except handler calls logging.error
        handler == IF LoggingImported THEN "skip" ELSE "raise"
    IN  IF content = "" THEN "skip"
        ELSE IF "type" \notin DOMAIN data THEN handler
        ELSE IF ~enc.ok THEN handler
        ELSE IF PyLen(enc.v) # text_dimension
             \* logging.warning inside the try block
             THEN IF LoggingImported THEN "skip" ELSE handler
        ELSE "set"

\* _generate_embeddings, from the i-th node in insertion order
RECURSIVE generate_embeddings(_, _)
generate_embeddings(g, i) ==
    IF i > Len(g.order) THEN [raised |-> FALSE, g |-> g]
    ELSE LET n == g.order[i]
             step == EmbedStep(g, n)
         IN  IF step = "raise" THEN [raised |-> TRUE, g |-> g]
             ELSE IF step = "skip" THEN generate_embeddings(g, i + 1)
             ELSE generate_embeddings(
                      AddNode(g, n, [embedding |-> Encode(g.attrs[n]["content"]).v]),
                      i + 1)

\* build_graph: the returned graph, or raised = TRUE when an exception leaves it
build_graph(chunks, entities, relationships) ==
    generate_embeddings(
        add_relationships(
            add_entity_nodes(add_chunk_nodes(EmptyGraph, chunks), entities),
            relationships),
        1)

-----------------------------------------------------------------------------
(* ContextAwareRetriever *)

RECURSIVE DotFrom(_, _, _)
DotFrom(a, b, i) == IF i > Len(a) THEN 0 ELSE a[i] * b[i] + DotFrom(a, b, i + 1)

\* scipy.spatial.distance.cosine accepts two one-dimensional arrays of the
\* same length and raises ValueError otherwise
CosineDefined(u, v) == Len(u.shape) = 1 /\ Len(v.shape) = 1 /\ u.shape = v.shape

\* 1 - cosine(u, v): the embeddings of the model are unit vectors, whose
\* cosine similarity is their dot product (-1, 0 or 1)
Similarity(u, v) == DotFrom(u.data, v.data, 1)

\* sorted(pairs, key=lambda x: x[1], reverse=True): descending by the second
\* component; the sort is stable, equal keys keep their order in pairs
RECURSIVE SortDescByScore(_)
SortDescByScore(pairs) ==
    IF pairs = <<>> THEN <<>>
    ELSE LET rest == SortDescByScore(SubSeq(pairs, 1, Len(pairs) - 1))
             x == pairs[Len(pairs)]
             \* x goes after every element whose key is >= its own
             pos == Cardinality({i \in 1..Len(rest) : rest[i][2] >= x[2]})
         IN  SubSeq(rest, 1, pos) \o <<x>> \o SubSeq(rest, pos + 1, Len(rest))

\* the similarities list built by the loop of _vector_search over the nodes
\* order[i..] in insertion order
RECURSIVE Similarities(_, _, _)
Similarities(g, query_embedding, i) ==
    IF i > Len(g.order) THEN <<>>
    ELSE LET node == g.order[i]
             data == g.attrs[node]
             rest == Similarities(g, query_embedding, i + 1)
         IN  IF "embedding" \notin DOMAIN data THEN rest
             ELSE IF PyLen(query_embedding) # PyLen(data["embedding"]) THEN rest
             \* an exception of cosine is caught and the node skipped
             ELSE IF ~CosineDefined(query_embedding, data["embedding"]) THEN rest
             ELSE <<<<node, Similarity(query_embedding, data["embedding"])>>>> \o rest

\* _vector_search
vector_search(g, query_embedding, k) ==
    Slice(SortDescByScore(Similarities(g, query_embedding, 1)), k)

\* list(s) for a set s of node ids: the iteration order of this process
ListOfSet(s, order) == SelectSeq(order, LAMBDA x : x \in s)

\* _graph_expansion
graph_expansion(g, initial_candidates, order) ==
    LET seeds == {c[1] : c \in Range(initial_candidates)}
        expanded == seeds \cup UNION {Neighbors(g, n) : n \in seeds}
    IN  ListOfSet(expanded, order)

\* 0.7 * similarity + 0.3 * importance with importance = degree / len(graph),
\* kept exact as the integer 10 * len(graph) * final_score
FinalScore(g, similarity, degree) ==
    7 * similarity * Cardinality(Nodes(g)) + 3 * degree

\* _hybrid_scoring from the i-th candidate: the scored list, or raised = TRUE
\* when cosine raises (nothing catches it here)
RECURSIVE hybrid_scoring(_, _, _, _)
hybrid_scoring(g, candidates, query_embedding, i) ==
    IF i > Len(candidates) THEN [raised |-> FALSE, scored |-> <<>>]
    ELSE LET node == candidates[i]
             node_data == g.attrs[node]
             rest == hybrid_scoring(g, candidates, query_embedding, i + 1)
         IN  IF "embedding" \notin DOMAIN node_data THEN rest
             ELSE IF ~CosineDefined(query_embedding, node_data["embedding"])
                  THEN [raised |-> TRUE, scored |-> <<>>]
             ELSE [raised |-> rest.raised,
                   scored |-> <<<<node,
                                  FinalScore(g,
                                      Similarity(query_embedding, node_data["embedding"]),
                                      Cardinality(Neighbors(g, node)))>>>> \o rest.scored]

\* a selection that keeps the candidates in the order they were scored in
SelectUnsorted(scored_candidates, k) == Slice(scored_candidates, k)

\* _select_top_results
select_top_results(scored_candidates, k) ==
    Slice(SortDescByScore(scored_candidates), k)

\* a retrieve that scores a node without an embedding as similarity zero
\* instead of excluding it
RetrieveZeroFill(g, query_embedding, top_k, order) ==
    LET zero == [shape |-> query_embedding.shape,
                 data |-> [i \in 1..Len(query_embedding.data) |-> 0]]
        g0 == [g EXCEPT !.attrs =
                  [n \in Nodes(g) |->
                      IF "embedding" \in DOMAIN g.attrs[n] THEN g.attrs[n]
                      ELSE Merge(g.attrs[n], [embedding |-> zero])]]
        initial_candidates == vector_search(g0, query_embedding, top_k * 2)
        expanded_candidates == graph_expansion(g0, initial_candidates, order)
        scored == hybrid_scoring(g0, expanded_candidates, query_embedding, 1)
    IN  [raised |-> scored.raised,
         seeds |-> {c[1] : c \in Range(initial_candidates)},
         cands |-> expanded_candidates,
         res |-> IF scored.raised THEN <<>> ELSE select_top_results(scored.scored, top_k)]

\* retrieve, on the query's embedding: the ordered list res of <<node, score>>,
\* or raised = TRUE; seeds and cands are the locals initial_candidates (its
\* nodes) and expanded_candidates
retrieve(g, query_embedding, top_k, order) ==
    LET initial_candidates == vector_search(g, query_embedding, top_k * 2)
        expanded_candidates == graph_expansion(g, initial_candidates, order)
        scored == hybrid_scoring(g, expanded_candidates, query_embedding, 1)
    IN  [raised |-> scored.raised,
         seeds |-> {c[1] : c \in Range(initial_candidates)},
         cands |-> expanded_candidates,
         res |-> IF scored.raised THEN <<>> ELSE select_top_results(scored.scored, top_k)]

-----------------------------------------------------------------------------
(* ContextAssembler.  nodes_data holds references to the attribute dicts of *)
(* the graph itself (data = graph.nodes[node]), so it is a list of node ids *)
(* and every write to such a dict is a write to the graph.                  *)

\* graph.nodes[n][key] = value
SetAttr(g, n, key, value) ==
    [g EXCEPT !.attrs[n] = Merge(g.attrs[n], [k \in {key} |-> value])]

\* the loop body of _get_nodes_data for one candidate: KeyError when the
\* candidate is no node of the graph, else data["id"] = node
get_node_data(g, node) ==
    IF node \notin Nodes(g) THEN [raised |-> TRUE, g |-> g]
    ELSE [raised |-> FALSE, g |-> SetAttr(g, node, "id", node)]

\* sklearn.metrics.pairwise.cosine_similarity(X, Y) accepts two-dimensional
\* arrays with the same number of columns and raises ValueError otherwise
PairwiseDefined(x, y) == Len(x.shape) = 2 /\ Len(y.shape) = 2 /\ x.shape[2] = y.shape[2]

\* the first loop body of _sort_nodes for one node: its relevance score is
\* written into its dict (0.0 without an embedding)
score_node(g, node, query_embedding) ==
    LET data == g.attrs[node]
    IN  IF "embedding" \in DOMAIN data
        THEN IF PairwiseDefined(data["embedding"], query_embedding)
             THEN [raised |-> FALSE,
                   g |-> SetAttr(g, node, "relevance_score",
                                 Similarity(data["embedding"], query_embedding))]
             ELSE [raised |-> TRUE, g |-> g]
        ELSE [raised |-> FALSE, g |-> SetAttr(g, node, "relevance_score", 0)]

type_priority(t) ==
    CASE t = "text" -> 1 [] t = "table" -> 2 [] t = "figure" -> 2 [] t = "entity" -> 3
      [] OTHER -> 999

\* a sort key that holds the type priority alone
KeyLeqTypeOnly(g, a, b) ==
    type_priority(Get(g.attrs[a], "type", "")) <= type_priority(Get(g.attrs[b], "type", ""))

\* key(a) <= key(b) for the sort key (type_priority, -relevance_score), read
\* from the dicts as they are when the sort runs
KeyLeq(g, a, b) ==
    LET pa == type_priority(Get(g.attrs[a], "type", ""))
        pb == type_priority(Get(g.attrs[b], "type", ""))
    IN  pa < pb \/ (pa = pb /\ -g.attrs[a]["relevance_score"] <= -g.attrs[b]["relevance_score"])

\* sorted(nodes_data, key=...): ascending and stable
RECURSIVE SortByKey(_, _)
SortByKey(g, nodes_data) ==
    IF nodes_data = <<>> THEN <<>>
    ELSE LET rest == SortByKey(g, SubSeq(nodes_data, 1, Len(nodes_data) - 1))
             x == nodes_data[Len(nodes_data)]
             pos == Cardinality({i \in 1..Len(rest) : KeyLeq(g, rest[i], x)})
         IN  SubSeq(rest, 1, pos) \o <<x>> \o SubSeq(rest, pos + 1, Len(rest))

\* _group_nodes: the nodes of one group, in sorted order
Group(g, nodes, t) == SelectSeq(nodes, LAMBDA n : Get(g.attrs[n], "type", "text") = t)

\* ContextAssembler.__init__ sets self.config only: self.tokenizer does not
\* exist and _count_tokens raises AttributeError
TokenizerDefined == FALSE

\* _group_nodes and _assemble_with_token_limit on the sorted nodes: the
\* Context, or raised = TRUE
assemble_with_token_limit(g, sorted_nodes, max_tokens) ==
    LET text == Group(g, sorted_nodes, "text")
        tables == Slice(Group(g, sorted_nodes, "table"), 2)
        figures == Slice(Group(g, sorted_nodes, "figure"), 2)
        entities == Slice(Group(g, sorted_nodes, "entity"), 5)
        \* no text is packed unless _count_tokens returns
        remaining_tokens == max_tokens
        raises ==
            \/ text # <<>> /\ ~TokenizerDefined
            \/ \E n \in Range(text) \cup Range(tables) : "content" \notin DOMAIN g.attrs[n]
            \/ \E n \in Range(figures) : "image" \notin DOMAIN g.attrs[n]
            \/ \E n \in Range(entities) : "text" \notin DOMAIN g.attrs[n]
    IN  IF raises THEN [raised |-> TRUE, context |-> EmptyDict]
        ELSE [raised |-> FALSE,
              context |->
                [text |-> <<>>,
                 tables |-> [i \in 1..Len(tables) |->
                                [content |-> g.attrs[tables[i]]["content"],
                                 caption |-> Get(g.attrs[tables[i]], "caption", "")]],
                 figures |-> [i \in 1..Len(figures) |->
                                [image |-> g.attrs[figures[i]]["image"],
                                 caption |-> Get(g.attrs[figures[i]], "caption", "")]],
                 entities |-> [i \in 1..Len(entities) |->
                                [text |-> g.attrs[entities[i]]["text"],
                                 type |-> g.attrs[entities[i]]["type"]]],
                 total_tokens |-> max_tokens - remaining_tokens]]

\* _get_nodes_data from the i-th candidate
RECURSIVE get_nodes_data(_, _, _)
get_nodes_data(g, nodes, i) ==
    IF i > Len(nodes) THEN [raised |-> FALSE, g |-> g]
    ELSE LET r == get_node_data(g, nodes[i])
         IN  IF r.raised THEN r ELSE get_nodes_data(r.g, nodes, i + 1)

\* the scoring loop of _sort_nodes from the i-th node
RECURSIVE score_nodes(_, _, _, _)
score_nodes(g, nodes_data, query_embedding, i) ==
    IF i > Len(nodes_data) THEN [raised |-> FALSE, g |-> g]
    ELSE LET r == score_node(g, nodes_data[i], query_embedding)
         IN  IF r.raised THEN r ELSE score_nodes(r.g, nodes_data, query_embedding, i + 1)

\* assemble_context run alone on graph g: the graph it leaves, and the
\* Context it returns or raised = TRUE
assemble_context(g, retrieved_nodes, query_embedding, max_tokens) ==
    LET r1 == get_nodes_data(g, retrieved_nodes, 1)
        r2 == score_nodes(r1.g, retrieved_nodes, query_embedding, 1)
        r3 == assemble_with_token_limit(r2.g, SortByKey(r2.g, retrieved_nodes), max_tokens)
    IN  IF r1.raised THEN [raised |-> TRUE, g |-> r1.g, context |-> EmptyDict]
        ELSE IF r2.raised THEN [raised |-> TRUE, g |-> r2.g, context |-> EmptyDict]
        ELSE [raised |-> r3.raised, g |-> r2.g, context |-> r3.context]

-----------------------------------------------------------------------------
(* Inputs of build_graph *)

\* raw ids: "c1", "c2", "e1", and "entity_1" as EntityExtractor generates them
C1 == <<"c", "1">>
C2 == <<"c", "2">>
E1 == <<"e", "1">>
ENT1 == S_entity \o <<"_", "1">>

\* bounds on the lengths of the three argument lists
MaxChunks == 2
MaxEntities == 1
MaxRels == 1

SeqsUpTo(S, n) == UNION {[1..m -> S] : m \in 0..n}

ChunkRecords ==
    {[id |-> C1, text |-> t, metadata |-> [page |-> 1]] : t \in {"alpha", "bad"}}
    \cup {[id |-> C2, text |-> "alpha", metadata |-> [page |-> 1]]}

EntityBase ==
    {[id |-> E1, text |-> t, type |-> "ORG"] : t \in {"beta", "long"}}
    \cup {[id |-> ENT1, text |-> "beta", type |-> "ORG"]}

\* an entity record with or without the optional key chunk_id
EntityRecords ==
    EntityBase \cup {Merge(e, [chunk_id |-> c]) : e \in EntityBase, c \in {C1, C2}}

RelEndpoints ==
    {p \in {E1, ENT1, C1} \X {C1, C2, ENT1} : p[1] # p[2]}

\* a relationship record with or without the optional key confidence
RelRecords ==
    {[source |-> p[1], target |-> p[2], type |-> "mentions", confidence |-> 8] :
        p \in RelEndpoints}
    \cup {[source |-> p[1], target |-> p[2], type |-> "contains"] : p \in RelEndpoints}

BuildInputs ==
    [chunks : SeqsUpTo(ChunkRecords, MaxChunks),
     entities : SeqsUpTo(EntityRecords, MaxEntities),
     relationships : SeqsUpTo(RelRecords, MaxRels)]

NoCall == [valid |-> FALSE]

\* the retriever and the assembler are handed a graph: the one build_graph
\* returned, or one the caller filled through the networkx API
GraphReady == buildStatus \in {"ok", "supplied"}

\* the latest retrieve call returned a list
Retrieved == lastRet.valid /\ ~lastRet.raised

-----------------------------------------------------------------------------
(* The build: build_graph applied to the arguments drawn at the start *)

InitBuild ==
    /\ input \in BuildInputs
    /\ graph = EmptyGraph
    /\ buildStatus = "none"
    /\ hashOrder = <<>>
    /\ lastOp = "init"
    /\ lastRet = NoCall
    /\ prevRet = NoCall
    /\ lastAsm = NoCall
    /\ asm = <<>>

\* graph_builder.build_graph(chunks, entities, relationships): the caller
\* receives the graph, or the exception and no graph
Build ==
    /\ buildStatus = "none"
    /\ LET r == build_graph(input.chunks, input.entities, input.relationships)
       IN  /\ buildStatus' = IF r.raised THEN "raised" ELSE "ok"
           /\ graph' = IF r.raised THEN graph ELSE r.g
    /\ lastOp' = "build"
    /\ UNCHANGED <<input, hashOrder, lastRet, prevRet, lastAsm, asm>>

NextBuild == Build

SpecBuild == InitBuild /\ [][NextBuild]_vars

-----------------------------------------------------------------------------
(* Properties of build_graph, checked under SpecBuild *)

Built == buildStatus = "ok"
BuildReturned == buildStatus # "none"

\* the ids and the nodes of the records supplied to build_graph
SuppliedIds ==
    {c["id"] : c \in Range(input.chunks)} \cup {e["id"] : e \in Range(input.entities)}
SuppliedNodes ==
    {NodeName(S_chunk, c["id"]) : c \in Range(input.chunks)}
    \cup {NodeName(S_entity, e["id"]) : e \in Range(input.entities)}

\* the graph as it is when _generate_embeddings starts
GraphBeforeEmbedding ==
    add_relationships(
        add_entity_nodes(add_chunk_nodes(EmptyGraph, input.chunks), input.entities),
        input.relationships)

\* the encoder raises on this content, or returns a vector of the wrong length
EncoderFails(content) ==
    content # "" /\ (~Encode(content).ok \/ PyLen(Encode(content).v) # text_dimension)

FailingNodes ==
    {n \in Nodes(GraphBeforeEmbedding) :
        EncoderFails(Get(GraphBeforeEmbedding.attrs[n], "content", ""))}

\* C4: when the encoder fails or returns a vector of the wrong length for a
\* node, build_graph still returns the graph; the node is kept without an
\* embedding and every other node with content has its embedding.
C4_EmbeddingFailureIsPerNode ==
    (BuildReturned /\ FailingNodes # {}) =>
        /\ Built
        /\ \A n \in Nodes(GraphBeforeEmbedding) :
              /\ n \in Nodes(graph)
              /\ LET content == Get(GraphBeforeEmbedding.attrs[n], "content", "")
                 IN  ("embedding" \in DOMAIN graph.attrs[n])
                         <=> (content # "" /\ ~EncoderFails(content))

\* a relationship whose source or target id is not among the supplied records
IsDangling(rel) == rel["source"] \notin SuppliedIds \/ rel["target"] \notin SuppliedIds

DanglingRels == {r \in Range(input.relationships) : IsDangling(r)}

\* build_graph returns the graph alone; it collects no warnings
BuildReport == {}

\* the graph built from the same arguments without the dangling relationships
GraphWithoutDangling ==
    add_relationships(
        add_entity_nodes(add_chunk_nodes(EmptyGraph, input.chunks), input.entities),
        SelectSeq(input.relationships, LAMBDA r : ~IsDangling(r)))

\* C5: a relationship whose source or target id is not among the supplied
\* chunks and entities leaves no edge and no additional node in the built
\* graph, the build succeeds, and the relationship is reported as a
\* DanglingEdge warning.
C5_DanglingRelationshipDropped ==
    (BuildReturned /\ DanglingRels # {} /\ FailingNodes = {}) =>
        /\ Built
        /\ DOMAIN graph.edges = DOMAIN GraphWithoutDangling.edges
        /\ Nodes(graph) = Nodes(GraphWithoutDangling)
        /\ \A r \in DanglingRels : [kind |-> "DanglingEdge", rel |-> r] \in BuildReport

Kinds == {"chunk", "entity", "table", "figure"}

\* C6: every node of a graph returned by build_graph has a kind attribute
\* (the key "type") whose value is chunk, entity, table or figure.
C6_KindPurity ==
    Built => \A n \in Nodes(graph) :
                 "type" \in DOMAIN graph.attrs[n] /\ graph.attrs[n]["type"] \in Kinds

\* C7: in a graph returned by build_graph both endpoint ids of every edge
\* are ids of nodes of that graph.
C7_NoDanglingEdges ==
    Built => \A e \in DOMAIN graph.edges : e[1] \in Nodes(graph) /\ e[2] \in Nodes(graph)

\* a returned graph with an edge one of whose endpoints was not supplied as
\* a chunk or an entity
C7_Witness ==
    /\ Built
    /\ \E e \in DOMAIN graph.edges : e[1] \notin SuppliedNodes \/ e[2] \notin SuppliedNodes

\* the clean-build scenario: chunks c1 and c2, entity e1 with chunk_id c1,
\* relationship (e1, c2, "mentions", 0.8), and an encoder that succeeds
IsCleanBuild ==
    /\ Len(input.chunks) = 2
    /\ input.chunks[1]["id"] = C1 /\ input.chunks[2]["id"] = C2
    /\ Len(input.entities) = 1
    /\ input.entities[1]["id"] = E1
    /\ "chunk_id" \in DOMAIN input.entities[1] /\ input.entities[1]["chunk_id"] = C1
    /\ input.relationships =
           <<[source |-> E1, target |-> C2, type |-> "mentions", confidence |-> 8]>>
    /\ FailingNodes = {}

\* C8: the clean build yields exactly 3 nodes and exactly the edges
\* c1 -> e1 (contains, confidence 1.0) and e1 -> c2 (mentions, confidence
\* 0.8) between the nodes created for those records.
C8_CleanBuildScenario ==
    (BuildReturned /\ IsCleanBuild) =>
        /\ Built
        /\ Cardinality(Nodes(graph)) = 3
        /\ Nodes(graph) = SuppliedNodes
        /\ DOMAIN graph.edges =
               {<<NodeName(S_chunk, C1), NodeName(S_entity, E1)>>,
                <<NodeName(S_entity, E1), NodeName(S_chunk, C2)>>}
        /\ graph.edges[<<NodeName(S_chunk, C1), NodeName(S_entity, E1)>>]
               = [type |-> "contains", confidence |-> 10]
        /\ graph.edges[<<NodeName(S_entity, E1), NodeName(S_chunk, C2)>>]
               = [type |-> "mentions", confidence |-> 8]

\* the edges build_graph is asked for: a contains edge for every entity
\* record with a chunk_id, and one edge per relationship record
RequestedEdges ==
    {[pair |-> <<NodeName(S_chunk, e["chunk_id"]), NodeName(S_entity, e["id"])>>,
      type |-> "contains"] :
        e \in {x \in Range(input.entities) : "chunk_id" \in DOMAIN x}}
    \cup {[pair |-> <<RelSource(r), RelTarget(r)>>, type |-> r["type"]] :
            r \in Range(input.relationships)}

\* the edges a DiGraph stores for an ordered pair of nodes: one at most
EdgesOf(g, pair) == IF pair \in DOMAIN g.edges THEN {g.edges[pair]} ELSE {}

\* C20: when edges of different types are requested for the same ordered
\* pair (two relationships, or a relationship on a pair that has a contains
\* edge), the built graph holds an edge of each requested type for the pair:
\* no edge's type is overwritten by a later one.
C20_DistinctEdgePerType ==
    Built => \A q \in RequestedEdges :
                 \E e \in EdgesOf(graph, q.pair) : e["type"] = q.type

\* C21: in a graph returned by build_graph every edge of type contains has
\* a node of kind chunk as source and a node of kind entity as target and
\* carries confidence 1.0.
C21_ContainsEdgesWellFormed ==
    Built => \A e \in DOMAIN graph.edges :
                 graph.edges[e]["type"] = "contains" =>
                     /\ Get(graph.attrs[e[1]], "type", None) = "chunk"
                     /\ Get(graph.attrs[e[2]], "type", None) = "entity"
                     /\ Get(graph.edges[e], "confidence", None) = 10

\* the positions in records of the records with this id
PositionsOf(records, id) == {i \in 1..Len(records) : records[i]["id"] = id}

\* the ids that two or more of the records carry
DuplicatedIds(records) ==
    {r["id"] : r \in {x \in Range(records) : Cardinality(PositionsOf(records, x["id"])) > 1}}

\* the first and the last record with this id
FirstOf(records, id) ==
    records[CHOOSE i \in PositionsOf(records, id) : \A j \in PositionsOf(records, id) : i <= j]
LastOf(records, id) ==
    records[CHOOSE i \in PositionsOf(records, id) : \A j \in PositionsOf(records, id) : i >= j]

\* the attributes a chunk record and an entity record are stored with
ChunkAttrsOf(chunk) ==
    [type |-> "chunk", content |-> chunk["text"], metadata |-> chunk["metadata"]]
EntityAttrsOf(entity) ==
    [type |-> "entity", content |-> entity["text"], entity_type |-> entity["type"],
     metadata |-> Get(entity, "metadata", EmptyDict)]

\* the attributes of node n in the returned graph, the embedding aside
StoredAttrs(n) ==
    [k \in (DOMAIN graph.attrs[n]) \ {"embedding"} |-> graph.attrs[n][k]]

\* every node with a duplicated id holds the attributes of the first record
\* with that id (reject), or every such node those of the last (replace)
DuplicateRule(pick(_, _)) ==
    /\ \A id \in DuplicatedIds(input.chunks) :
           StoredAttrs(NodeName(S_chunk, id)) = ChunkAttrsOf(pick(input.chunks, id))
    /\ \A id \in DuplicatedIds(input.entities) :
           StoredAttrs(NodeName(S_entity, id)) = EntityAttrsOf(pick(input.entities, id))

\* C22: when two chunks or two entities have the same id, the build
\* completes, the node holds the attributes of one of the records only
\* (the first everywhere or the last everywhere), and the duplicate is
\* reported as a DuplicateNode condition.
C22_DuplicateNodeHandled ==
    (/\ BuildReturned
     /\ DuplicatedIds(input.chunks) \cup DuplicatedIds(input.entities) # {}
     /\ FailingNodes = {}) =>
        /\ Built
        /\ DuplicateRule(FirstOf) \/ DuplicateRule(LastOf)
        /\ \A id \in DuplicatedIds(input.chunks) :
               [kind |-> "DuplicateNode", node |-> NodeName(S_chunk, id)] \in BuildReport
        /\ \A id \in DuplicatedIds(input.entities) :
               [kind |-> "DuplicateNode", node |-> NodeName(S_entity, id)] \in BuildReport

\* the node created for the supplied record with this id
NodeOfId(id) ==
    IF id \in {c["id"] : c \in Range(input.chunks)} THEN NodeName(S_chunk, id)
    ELSE NodeName(S_entity, id)

\* the graph as it is when _add_relationships starts
GraphBeforeRelationships ==
    add_entity_nodes(add_chunk_nodes(EmptyGraph, input.chunks), input.entities)

\* C26: a relationship whose source and target are ids of supplied chunks
\* or entities adds its edge between the nodes created for those two
\* records, whatever characters the ids contain, and adds no node.
C26_RelationshipJoinsSuppliedNodes ==
    Built =>
        /\ \A r \in Range(input.relationships) \ DanglingRels :
               <<NodeOfId(r["source"]), NodeOfId(r["target"])>> \in DOMAIN graph.edges
        /\ DanglingRels = {} => Nodes(graph) = Nodes(GraphBeforeRelationships)

-----------------------------------------------------------------------------
(* The pipeline of run_example.py in one process: build_graph, then         *)
(* retrieve and assemble_context calls on the built graph                   *)

\* bounds of the pipeline's inputs
MaxIndexedEntities == 2
MaxTopK == 2
MaxCandidates == 1
MaxAssembleCalls == 1

IndexedChunkRecords ==
    {[id |-> C1, text |-> t, metadata |-> [page |-> 1]] : t \in {"alpha", "beta"}}

IndexedEntityRecords ==
    LET base == {[id |-> i, text |-> "beta", type |-> "ORG"] : i \in {E1, ENT1}}
    IN  base \cup {Merge(e, [chunk_id |-> C1]) : e \in base}

IndexedInputs ==
    [chunks : SeqsUpTo(IndexedChunkRecords, 1),
     entities : SeqsUpTo(IndexedEntityRecords, MaxIndexedEntities),
     relationships : {<<>>}]

\* every node id a build from IndexedInputs can create
IndexedNodes ==
    {NodeName(S_chunk, C1), NodeName(S_entity, E1), NodeName(S_entity, ENT1)}

\* the orders in which a set of these strings can be iterated: the order
\* follows the strings' hashes, which are drawn when the process starts
HashOrders ==
    {o \in [1..Cardinality(IndexedNodes) -> IndexedNodes] : Range(o) = IndexedNodes}

\* embedder.encode(query) for the queries of the model
QueryEmbeddings == {Arr1(<<1, 0>>), Arr1(<<0, 1>>)}

\* the same records in another order
Reordered(s) == {[i \in 1..Len(s) |-> s[f[i]]] : f \in Permutations(1..Len(s))}

Init ==
    /\ input \in IndexedInputs
    /\ hashOrder \in HashOrders
    /\ graph = EmptyGraph
    /\ buildStatus = "none"
    /\ lastOp = "init"
    /\ lastRet = NoCall
    /\ prevRet = NoCall
    /\ lastAsm = [valid |-> FALSE, calls |-> 0]
    /\ asm = <<>>

\* build_graph called again on the same records, supplied in another order
Rebuild ==
    /\ Built
    /\ \E cs \in Reordered(input.chunks), es \in Reordered(input.entities) :
          /\ <<cs, es>> # <<input.chunks, input.entities>>
          /\ input' = [input EXCEPT !.chunks = cs, !.entities = es]
          /\ LET r == build_graph(cs, es, input.relationships)
             IN  /\ buildStatus' = IF r.raised THEN "raised" ELSE "ok"
                 /\ graph' = IF r.raised THEN graph ELSE r.g
    /\ lastOp' = "build"
    /\ UNCHANGED <<hashOrder, lastRet, prevRet, lastAsm, asm>>

\* retriever.retrieve(query, top_k) on the built graph
Retrieve(query_embedding, top_k) ==
    /\ GraphReady
    /\ LET r == retrieve(graph, query_embedding, top_k, hashOrder)
       IN  lastRet' = [valid |-> TRUE, query |-> query_embedding, top_k |-> top_k,
                       g |-> graph, raised |-> r.raised, res |-> r.res,
                       seeds |-> r.seeds, cands |-> r.cands]
    /\ prevRet' = IF lastRet.valid /\ lastRet.query = query_embedding /\ lastRet.top_k = top_k
                  THEN lastRet ELSE NoCall
    /\ lastOp' = "retrieve"
    /\ UNCHANGED <<input, graph, buildStatus, hashOrder, lastAsm, asm>>

\* assembler.assemble_context(retrieved_nodes, knowledge_graph,
\* query_embedding, max_tokens)
AssembleWith(retrieved_nodes, query_embedding, max_tokens) ==
    /\ GraphReady
    /\ lastAsm.calls < MaxAssembleCalls
    /\ LET r == assemble_context(graph, retrieved_nodes, query_embedding, max_tokens)
       IN  /\ graph' = r.g
           /\ lastAsm' = [valid |-> TRUE, calls |-> lastAsm.calls + 1,
                          nodes |-> retrieved_nodes, query |-> query_embedding,
                          max_tokens |-> max_tokens,
                          g |-> graph, raised |-> r.raised, context |-> r.context]
    /\ lastOp' = "assemble"
    /\ UNCHANGED <<input, buildStatus, hashOrder, lastRet, prevRet, asm>>

\* assembler.assemble_context(retrieved_nodes, knowledge_graph, query_embedding)
\* with a list of node ids; max_tokens has its default
Assemble(retrieved_nodes, query_embedding) ==
    AssembleWith(retrieved_nodes, query_embedding, 4000)

\* run_example.py: the list retrieve returned is passed on as it is, with
\* the embedding of the same query
AssembleRetrieved ==
    /\ Retrieved
    /\ Assemble(lastRet.res, lastRet.query)

Next ==
    \/ Build
    \/ \E q \in QueryEmbeddings, k \in 1..MaxTopK : Retrieve(q, k)
    \/ \E q \in QueryEmbeddings, c \in SeqsUpTo(Nodes(graph), MaxCandidates) : Assemble(c, q)
    \/ AssembleRetrieved

Spec == Init /\ [][Next]_vars

\* the values of top_k: retrieve takes any integer
TopKs == (0 - MaxTopK)..MaxTopK

\* build_graph and retrieve alone
NextRetrieve ==
    \/ Build
    \/ \E q \in QueryEmbeddings, k \in TopKs : Retrieve(q, k)

SpecRetrieve == Init /\ [][NextRetrieve]_vars

\* the pipeline when the document is indexed again between queries
NextReindex ==
    \/ NextRetrieve
    \/ Rebuild

SpecReindex == Init /\ [][NextReindex]_vars

-----------------------------------------------------------------------------
(* Properties of retrieve and assemble_context on a built graph *)

\* C10: for all adjacent pairs (a, b) of a retrieve result, score(a) >= score(b).
C10_MonotonicRanking ==
    Retrieved =>
        \A i \in 1..(Len(lastRet.res) - 1) : lastRet.res[i][2] >= lastRet.res[i + 1][2]

\* a result of two entries or more whose first two scores differ, returned
\* for candidates that the expansion listed in another order
C10_Witness ==
    /\ Retrieved
    /\ Len(lastRet.res) >= 2
    /\ lastRet.res[1][2] > lastRet.res[2][2]
    /\ LET first == CHOOSE i \in 1..Len(hashOrder) : hashOrder[i] = lastRet.res[1][1]
           second == CHOOSE i \in 1..Len(hashOrder) : hashOrder[i] = lastRet.res[2][1]
       IN  second < first

\* C1: a retrieve result is ordered by descending score, and two entries
\* with equal score appear in ascending node_id order.
C1_OrderedWithTieBreak ==
    Retrieved =>
        \A i \in 1..(Len(lastRet.res) - 1) :
            \/ lastRet.res[i][2] > lastRet.res[i + 1][2]
            \/ /\ lastRet.res[i][2] = lastRet.res[i + 1][2]
               /\ StrLess(lastRet.res[i][1], lastRet.res[i + 1][1])

\* C2: no retrieve call and no assemble_context call changes a node, an
\* edge or an attribute of the graph: the graph after the call equals the
\* graph before it.
C2_CallsLeaveGraphUnchanged ==
    /\ lastOp = "retrieve" => graph = lastRet.g
    /\ lastOp = "assemble" => graph = lastAsm.g

\* C9: two retrieve calls with the same query embedding and top_k on the
\* same graph (the same nodes, attributes and edges, in whatever order they
\* were inserted) return identical sequences.
C9_RetrieveDeterministic ==
    (/\ lastRet.valid /\ prevRet.valid
     /\ lastRet.query = prevRet.query /\ lastRet.top_k = prevRet.top_k
     /\ lastRet.g.attrs = prevRet.g.attrs /\ lastRet.g.edges = prevRet.g.edges)
        => (lastRet.raised = prevRet.raised /\ lastRet.res = prevRet.res)

\* C11: the result of retrieve has at most top_k entries when top_k > 0 and
\* is empty when top_k <= 0, negative top_k included.
C11_ResultSizeBounded ==
    Retrieved =>
        IF lastRet.top_k > 0 THEN Len(lastRet.res) <= lastRet.top_k
        ELSE lastRet.res = <<>>

\* the nodes with an edge to n
Predecessors(g, n) == {e[1] : e \in {d \in DOMAIN g.edges : d[2] = n}}

\* C17: the candidate set of graph expansion is the seed set united with
\* every successor and every predecessor of a seed.
C17_ExpansionBothDirections ==
    lastRet.valid =>
        Range(lastRet.cands) =
            lastRet.seeds
            \cup UNION {Neighbors(lastRet.g, n) \cup Predecessors(lastRet.g, n) :
                          n \in lastRet.seeds}

\* the number of edges incident to n, incoming and outgoing
IncidentEdges(g, n) == Cardinality({e \in DOMAIN g.edges : e[1] = n \/ e[2] = n})

\* C18: the score of a returned node is 0.7 * similarity + 0.3 * importance
\* where importance is the number of edges incident to the node, incoming
\* and outgoing, divided by the number of nodes of the graph.
C18_ImportanceCountsBothDirections ==
    Retrieved =>
        \A i \in 1..Len(lastRet.res) :
            LET n == lastRet.res[i][1]
            IN  lastRet.res[i][2] =
                    FinalScore(lastRet.g,
                               Similarity(lastRet.query, lastRet.g.attrs[n]["embedding"]),
                               IncidentEdges(lastRet.g, n))

\* C14: the list returned by retrieve can be passed unchanged as the
\* candidate list of assemble_context on the same graph; assemble_context
\* resolves every entry to its node and returns a Context without raising.
C14_RetrieveOutputFeedsAssemble ==
    (/\ lastOp = "assemble"
     /\ Retrieved
     /\ lastAsm.nodes = lastRet.res
     /\ lastAsm.g = lastRet.g)
        => ~lastAsm.raised

-----------------------------------------------------------------------------
(* retrieve on a graph handed to ContextAwareRetriever by its caller: the   *)
(* nodes and keys of a built graph, with embeddings that are absent or come *)
(* from encoders of different output lengths                                *)

\* insertion order of the nodes of a supplied graph
SuppliedOrder == <<NodeName(S_chunk, C1), NodeName(S_entity, E1), NodeName(S_entity, ENT1)>>

SuppliedEdges ==
    {<<NodeName(S_chunk, C1), NodeName(S_entity, E1)>>,
     <<NodeName(S_chunk, C1), NodeName(S_entity, ENT1)>>,
     <<NodeName(S_entity, E1), NodeName(S_entity, ENT1)>>}

\* the attribute dict of node n: choice 0 has no embedding, choice 1 an
\* embedding of length 2, choice 2 an embedding of length 3
SuppliedAttrs(n, choice) ==
    LET base == [type |-> IF Contains(S_chunk, n) THEN "chunk" ELSE "entity",
                 content |-> "alpha"]
    IN  CASE choice = 0 -> base
          [] choice = 1 -> Merge(base, [embedding |-> Arr1(<<1, 0>>)])
          [] choice = 2 -> Merge(base, [embedding |-> Arr1(<<1, 0, 0>>)])

\* the DiGraph after add_node for the nodes ns, with embedding choices f,
\* and add_edge for the edges es between them
SuppliedGraph(ns, f, es) ==
    [order |-> SelectSeq(SuppliedOrder, LAMBDA n : n \in ns),
     attrs |-> [n \in ns |-> SuppliedAttrs(n, f[n])],
     edges |-> [e \in es |-> [type |-> "contains"]]]

RetrieverGraphs ==
    UNION {UNION {{SuppliedGraph(ns, f, es) :
                      es \in SUBSET {e \in SuppliedEdges : e[1] \in ns /\ e[2] \in ns}} :
                  f \in [ns -> 0..2]} :
           ns \in SUBSET IndexedNodes}

\* embedder.encode(query) of a retriever whose encoder returns vectors of
\* length 2 or of length 3
AnyQueryEmbeddings == {Arr1(<<1, 0>>), Arr1(<<1, 0, 0>>)}

InitGraphs ==
    /\ graph \in RetrieverGraphs
    /\ hashOrder \in HashOrders
    /\ buildStatus = "supplied"
    /\ input = [chunks |-> <<>>, entities |-> <<>>, relationships |-> <<>>]
    /\ lastOp = "init"
    /\ lastRet = NoCall
    /\ prevRet = NoCall
    /\ lastAsm = [valid |-> FALSE, calls |-> 0]
    /\ asm = <<>>

NextGraphs == \E q \in AnyQueryEmbeddings, k \in TopKs : Retrieve(q, k)

SpecGraphs == InitGraphs /\ [][NextGraphs]_vars

\* no node of g has an embedding
Embeddingless(g) == \A n \in Nodes(g) : "embedding" \notin DOMAIN g.attrs[n]

\* C12: on a graph in which no node has an embedding, the empty graph
\* included, retrieve returns an empty list for every query embedding and
\* every top_k, and does not raise.
C12_EmbeddinglessRetrievalEmpty ==
    (lastRet.valid /\ Embeddingless(lastRet.g)) =>
        (~lastRet.raised /\ lastRet.res = <<>>)

\* retrieve with a positive top_k has returned on a graph of three nodes
\* joined by edges, none of them with an embedding
C12_Witness ==
    /\ Retrieved
    /\ lastRet.top_k > 0
    /\ Embeddingless(lastRet.g)
    /\ Cardinality(Nodes(lastRet.g)) = 3
    /\ DOMAIN lastRet.g.edges # {}
    /\ lastRet.res = <<>>

\* the nodes of g whose embedding length differs from the query's
Mismatched(g, query_embedding) ==
    {n \in Nodes(g) : /\ "embedding" \in DOMAIN g.attrs[n]
                      /\ PyLen(g.attrs[n]["embedding"]) # PyLen(query_embedding)}

\* C19: a node whose embedding length differs from the query embedding's
\* length is skipped by vector search and by hybrid scoring and never makes
\* retrieve raise, also when it is a candidate only as a neighbour of a seed.
C19_MismatchedNodeSkipped ==
    (lastRet.valid /\ Mismatched(lastRet.g, lastRet.query) # {}) =>
        /\ ~lastRet.raised
        /\ \A i \in 1..Len(lastRet.res) :
               lastRet.res[i][1] \notin Mismatched(lastRet.g, lastRet.query)

-----------------------------------------------------------------------------
(* Concurrent assemble_context calls: threads of one process that share the *)
(* graph handed to them.  The graph is one a caller has filled through the  *)
(* networkx API with the node kinds and keys assemble_context reads: table  *)
(* nodes with content and caption, embeddings stored as (1, d) arrays.      *)

\* the two concurrent calls
Threads == {1, 2}

S_table == <<"t", "a", "b", "l", "e">>
T0 == NodeName(S_table, <<"0">>)
T1 == NodeName(S_table, <<"1">>)

TableAttrs(content) ==
    {[type |-> "table", content |-> content, caption |-> "cap"]}
    \cup {[type |-> "table", content |-> content, caption |-> "cap", embedding |-> Row(v)] :
            v \in {<<1, 0>>, <<0, 1>>}}

SuppliedGraphs ==
    {AddNode(AddNode(EmptyGraph, T0, a0), T1, a1) :
        a0 \in TableAttrs("rows0"), a1 \in TableAttrs("rows1")}

\* candidate lists: the lists of distinct nodes of the graph
CandidateLists(g) ==
    {c \in SeqsUpTo(Nodes(g), Cardinality(Nodes(g))) :
        c # <<>> /\ \A i, j \in 1..Len(c) : i # j => c[i] # c[j]}

RowQueries == {Row(<<1, 0>>), Row(<<0, 1>>)}

\* a call of assemble_context that has just been entered
NewCall(g, nodes, query_embedding) ==
    [pc |-> "get", i |-> 1, nodes |-> nodes, query |-> query_embedding, g |-> g,
     sorted |-> <<>>, raised |-> FALSE, context |-> EmptyDict]

InitConcurrent ==
    /\ graph \in SuppliedGraphs
    /\ asm \in {a \in [Threads -> {NewCall(graph, c, q) :
                                     c \in CandidateLists(graph), q \in RowQueries}] :
                  \A s, t \in Threads : s # t => a[s].query # a[t].query}
    /\ input = [chunks |-> <<>>, entities |-> <<>>, relationships |-> <<>>]
    /\ buildStatus = "none"
    /\ hashOrder = <<>>
    /\ lastOp = "init"
    /\ lastRet = NoCall
    /\ prevRet = NoCall
    /\ lastAsm = [valid |-> FALSE, calls |-> 0]

Raise(t) == asm' = [asm EXCEPT ![t].pc = "done", ![t].raised = TRUE]

\* one iteration of the loop of _get_nodes_data in thread t
AsmGet(t) ==
    /\ asm[t].pc = "get"
    /\ LET c == asm[t]
           r == get_node_data(graph, c.nodes[c.i])
       IN  IF r.raised THEN Raise(t) /\ UNCHANGED graph
           ELSE /\ graph' = r.g
                /\ asm' = IF c.i = Len(c.nodes)
                          THEN [asm EXCEPT ![t].pc = "score", ![t].i = 1]
                          ELSE [asm EXCEPT ![t].i = c.i + 1]
    /\ lastOp' = "assemble"
    /\ UNCHANGED <<input, buildStatus, hashOrder, lastRet, prevRet, lastAsm>>

\* one iteration of the scoring loop of _sort_nodes in thread t
AsmScore(t) ==
    /\ asm[t].pc = "score"
    /\ LET c == asm[t]
           r == score_node(graph, c.nodes[c.i], c.query)
       IN  IF r.raised THEN Raise(t) /\ UNCHANGED graph
           ELSE /\ graph' = r.g
                /\ asm' = IF c.i = Len(c.nodes)
                          THEN [asm EXCEPT ![t].pc = "sort"]
                          ELSE [asm EXCEPT ![t].i = c.i + 1]
    /\ lastOp' = "assemble"
    /\ UNCHANGED <<input, buildStatus, hashOrder, lastRet, prevRet, lastAsm>>

\* the sorted(...) call of _sort_nodes in thread t: the keys are read from
\* the shared dicts
AsmSort(t) ==
    /\ asm[t].pc = "sort"
    /\ asm' = [asm EXCEPT ![t].pc = "pack", ![t].sorted = SortByKey(graph, asm[t].nodes)]
    /\ lastOp' = "assemble"
    /\ UNCHANGED <<input, graph, buildStatus, hashOrder, lastRet, prevRet, lastAsm>>

\* _group_nodes and _assemble_with_token_limit in thread t; the call returns
AsmPack(t) ==
    /\ asm[t].pc = "pack"
    /\ LET r == assemble_with_token_limit(graph, asm[t].sorted, 4000)
       IN  asm' = [asm EXCEPT ![t].pc = "done", ![t].raised = r.raised,
                              ![t].context = r.context]
    /\ lastOp' = "assemble"
    /\ UNCHANGED <<input, graph, buildStatus, hashOrder, lastRet, prevRet, lastAsm>>

NextConcurrent ==
    \E t \in Threads : AsmGet(t) \/ AsmScore(t) \/ AsmSort(t) \/ AsmPack(t)

SpecConcurrent == InitConcurrent /\ [][NextConcurrent]_vars

\* what the call of thread t returns when it runs alone on the graph it was given
Alone(t) == assemble_context(asm[t].g, asm[t].nodes, asm[t].query, 4000)

\* C3: when two assemble_context calls with different query embeddings run
\* concurrently on the same graph, each call returns exactly the Context it
\* would return if it ran alone.
C3_ConcurrentCallsIndependent ==
    \A t \in Threads :
        asm[t].pc = "done" =>
            /\ asm[t].raised = Alone(t).raised
            /\ asm[t].context = Alone(t).context

-----------------------------------------------------------------------------
(* One assemble_context call on a graph of table nodes that a caller has    *)
(* filled through the networkx API.  The call reads no attribute an earlier *)
(* call wrote except id and relevance_score, which it writes itself before  *)
(* reading them, so a run is one call on a fresh graph.                     *)

\* the number of table nodes of the graph
MaxTables == 5

Digits == <<"0", "1", "2", "3", "4", "5", "6", "7", "8", "9">>

\* f"table_{idx}"
TableNode(idx) == NodeName(S_table, <<Digits[idx + 1]>>)

TableNodes == {TableNode(i) : i \in 0..(MaxTables - 1)}

TableIndex(n) == CHOOSE i \in 0..(MaxTables - 1) : TableNode(i) = n

\* the attribute dict of table idx: choice 0 has no embedding, choices 1
\* and 2 an embedding of shape (1, 2)
TableNodeAttrs(idx, choice) ==
    LET base == [type |-> "table", content |-> [cells |-> <<<<idx>>>>], caption |-> "cap"]
    IN  CASE choice = 0 -> base
          [] choice = 1 -> Merge(base, [embedding |-> Row(<<1, 0>>)])
          [] choice = 2 -> Merge(base, [embedding |-> Row(<<-1, 0>>)])

TableGraphs ==
    {[order |-> [i \in 1..MaxTables |-> TableNode(i - 1)],
      attrs |-> [n \in TableNodes |-> TableNodeAttrs(TableIndex(n), f[TableIndex(n)])],
      edges |-> EmptyDict] :
        f \in [0..(MaxTables - 1) -> 0..2]}

\* the id of a node that an earlier graph held and this graph does not
StaleId == NodeName(S_chunk, C1)

\* candidate lists: some nodes of the graph, alone or with the stale id
\* before or after them
TableCandidateLists(g) ==
    LET subs == {SelectSeq(g.order, LAMBDA n : n \in S) : S \in SUBSET Nodes(g)}
    IN  subs \cup {<<StaleId>> \o c : c \in subs} \cup {c \o <<StaleId>> : c \in subs}

\* values of the argument max_tokens: any integer is accepted
MaxTokensValues == {0 - 1, 0, 4000}

InitTables ==
    /\ graph \in TableGraphs
    /\ buildStatus = "supplied"
    /\ input = [chunks |-> <<>>, entities |-> <<>>, relationships |-> <<>>]
    /\ hashOrder = <<>>
    /\ lastOp = "init"
    /\ lastRet = NoCall
    /\ prevRet = NoCall
    /\ lastAsm = [valid |-> FALSE, calls |-> 0]
    /\ asm = <<>>

NextTables ==
    /\ lastAsm.calls = 0
    /\ \E c \in TableCandidateLists(graph), q \in RowQueries, m \in MaxTokensValues :
          AssembleWith(c, q, m)

SpecTables == InitTables /\ [][NextTables]_vars

\* the latest assemble_context call returned a Context
Assembled == lastAsm.valid /\ ~lastAsm.raised

\* C13: the total_tokens of a returned Context never exceeds max_tokens, for
\* every candidate list, graph and max_tokens value the call accepts.
C13_BudgetRespected ==
    Assembled => lastAsm.context.total_tokens <= lastAsm.max_tokens

\* the candidates that are nodes of the graph the call was given
Resolvable(nodes, g) == SelectSeq(nodes, LAMBDA n : n \in Nodes(g))

\* C15: a candidate id that is not a node of the graph is skipped: the call
\* does not raise and returns the Context it returns without that id.
C15_StaleCandidateSkipped ==
    (lastAsm.valid /\ Resolvable(lastAsm.nodes, lastAsm.g) # lastAsm.nodes) =>
        /\ ~lastAsm.raised
        /\ lastAsm.context =
              assemble_context(lastAsm.g, Resolvable(lastAsm.nodes, lastAsm.g),
                               lastAsm.query, lastAsm.max_tokens).context

\* the table nodes among the candidates of the latest call
TableCandidates ==
    {n \in Range(lastAsm.nodes) : Get(lastAsm.g.attrs[n], "type", "") = "table"}

\* the table candidates whose content is in the tables of the Context
ChosenTables ==
    {n \in TableCandidates :
        \E i \in 1..Len(lastAsm.context.tables) :
            lastAsm.context.tables[i].content = lastAsm.g.attrs[n]["content"]}

\* the relevance of node n for the query of the latest call: the cosine
\* similarity of its embedding and the query embedding, 0 without an embedding
Relevance(n) ==
    IF "embedding" \in DOMAIN lastAsm.g.attrs[n]
    THEN Similarity(lastAsm.g.attrs[n]["embedding"], lastAsm.query)
    ELSE 0

\* C16: the tables of the Context are the min(2, n) highest-scoring of the n
\* table candidates, whatever max_tokens is; of 5 table candidates exactly 2
\* are included.
C16_TopTwoTables ==
    Assembled =>
        /\ Len(lastAsm.context.tables) =
               (IF Cardinality(TableCandidates) < 2 THEN Cardinality(TableCandidates) ELSE 2)
        /\ Cardinality(ChosenTables) = Len(lastAsm.context.tables)
        /\ \A a \in ChosenTables, b \in TableCandidates \ ChosenTables :
               Relevance(a) >= Relevance(b)

\* a Context returned for 5 table candidates, the first two of which score
\* lower than the two tables included
C16_Witness ==
    /\ Assembled
    /\ Cardinality(TableCandidates) = 5
    /\ Len(lastAsm.context.tables) = 2
    /\ lastAsm.nodes[1] \notin ChosenTables
    /\ lastAsm.nodes[2] \notin ChosenTables
    /\ \A a \in ChosenTables : Relevance(a) > Relevance(lastAsm.nodes[1])

\* the candidates of the latest call are nodes of this kind, one at least
CandidatesOfKind(kind) ==
    /\ lastAsm.valid
    /\ lastAsm.nodes # <<>>
    /\ \A n \in Range(lastAsm.nodes) :
           n \in Nodes(lastAsm.g) /\ Get(lastAsm.g.attrs[n], "type", None) = kind

\* the contents of the candidates in descending order of relevance
ContentsByRelevance ==
    LET pairs == [i \in 1..Len(lastAsm.nodes) |->
                     <<lastAsm.nodes[i], Relevance(lastAsm.nodes[i])>>]
        sorted == SortDescByScore(pairs)
    IN  [i \in 1..Len(sorted) |-> lastAsm.g.attrs[sorted[i][1]]["content"]]

\* the token count of a text: the texts of the model are single words
WordCount(text) == IF text = "" THEN 0 ELSE 1

\* the longest prefix of texts whose token counts sum to at most budget
RECURSIVE PackedPrefix(_, _)
PackedPrefix(texts, budget) ==
    IF texts = <<>> \/ WordCount(Head(texts)) > budget THEN <<>>
    ELSE <<Head(texts)>> \o PackedPrefix(Tail(texts), budget - WordCount(Head(texts)))

RECURSIVE TokenSum(_)
TokenSum(texts) == IF texts = <<>> THEN 0 ELSE WordCount(Head(texts)) + TokenSum(Tail(texts))

\* C23: for candidates that are chunk nodes of a built graph, the text of
\* the Context is the longest prefix of the chunks in descending relevance
\* order that fits in max_tokens, each chunk whole, and total_tokens is the
\* sum of the token counts of the packed chunks.
C23_ChunkTextPacked ==
    CandidatesOfKind("chunk") =>
        /\ ~lastAsm.raised
        /\ lastAsm.context.text = PackedPrefix(ContentsByRelevance, lastAsm.max_tokens)
        /\ lastAsm.context.total_tokens =
               TokenSum(PackedPrefix(ContentsByRelevance, lastAsm.max_tokens))

\* C24: for n entity candidates of a built graph the call does not raise
\* and the entities of the Context are min(5, n) records {text, type} that
\* give an entity's text and its entity subtype.
C24_EntitiesReduced ==
    CandidatesOfKind("entity") =>
        /\ ~lastAsm.raised
        /\ Len(lastAsm.context.entities) =
               (IF Len(lastAsm.nodes) < 5 THEN Len(lastAsm.nodes) ELSE 5)
        /\ \A i \in 1..Len(lastAsm.context.entities) :
               \E n \in Range(lastAsm.nodes) :
                   lastAsm.context.entities[i] =
                       [text |-> lastAsm.g.attrs[n]["content"],
                        type |-> lastAsm.g.attrs[n]["entity_type"]]

\* the table candidate whose content this is
TableOfContent(content) ==
    CHOOSE n \in TableCandidates : lastAsm.g.attrs[n]["content"] = content

Embedded(n) == "embedding" \in DOMAIN lastAsm.g.attrs[n]

\* C25: a candidate without an embedding is scored 0.0, is not left out
\* while a candidate of its kind with an embedding is included after it or
\* instead of it, and comes after every candidate of its kind that has an
\* embedding, also one of negative cosine similarity.
C25_UnembeddedRankedLast ==
    Assembled =>
        /\ \A n \in TableCandidates :
               ~Embedded(n) => graph.attrs[n]["relevance_score"] = 0
        /\ \A i, j \in 1..Len(lastAsm.context.tables) :
               i < j => ~(/\ ~Embedded(TableOfContent(lastAsm.context.tables[i].content))
                          /\ Embedded(TableOfContent(lastAsm.context.tables[j].content)))
        /\ \A a \in ChosenTables, b \in TableCandidates \ ChosenTables :
               Embedded(b) => Embedded(a)

=============================================================================
